---- MODULE Spec2Model ----
(***************************************************************************)
(* DatabaseHelper of the notification service: findNotifications (instant  *)
(* and digest paths with sent-stamping), _aggregateNotifications (top      *)
(* three posts of a receiver) and findUnreadDirectMessages.                *)
(*                                                                         *)
(* Time is counted in minutes.  A Date is a natural number, null is        *)
(* NullDate, an Invalid Date is InvalidDate.                               *)
(***************************************************************************)
EXTENDS Integers, Sequences, FiniteSets, TLC

VARIABLES
  \* the notifications collection and the callers of findNotifications
  clock,                     \* what new Date() returns
  notifications,             \* the notifications collection, in insertion order
  users,                     \* the users collection
  callers,                   \* who may call findNotifications
  call,                      \* per caller: the call in flight, if any
  started,                   \* number of calls started so far
  created,                   \* number of notifications created so far
  reads,                     \* number of notifications read so far
  quiet,                     \* no notification created or read since the last call began
  history,                   \* the calls that have returned, in order of return
  \* _aggregateNotifications
  aggInput,                  \* the notifications argument
  notificationCountsByPost,  \* the object built by the loop, in key insertion order
  topThreePosts,             \* the returned array
  \* findUnreadDirectMessages
  threadsCollection,         \* the threads collection
  messagesCollection,        \* the messages collection
  pc,                        \* where the call is
  threads,                   \* the joined threads the first aggregate returned
  messagesCursor,            \* what the cursor still holds
  messages                   \* the triples pushed so far

aggVars == <<aggInput, notificationCountsByPost, topThreePosts>>

dmVars == <<threadsCollection, messagesCollection, pc, threads, messagesCursor, messages>>

notifVars == <<clock, notifications, users, callers, call, started, created, reads, quiet, history>>

vars == <<clock, notifications, users, callers, call, started, created, reads, quiet, history,
          aggInput, notificationCountsByPost, topThreePosts,
          threadsCollection, messagesCollection, pc, threads, messagesCursor, messages>>

----------------------------------------------------------------------------
(* Values                                                                  *)

Null == [null |-> TRUE]

NullDate == -1

InvalidDate == -2

Undefined == -3

NotificationAction == [COMMENT |-> "comment", LIKE |-> "like", SHARE |-> "share"]

Actions == {NotificationAction.COMMENT, NotificationAction.LIKE, NotificationAction.SHARE}

Min(a, b) == IF a <= b THEN a ELSE b

----------------------------------------------------------------------------
(* _aggregateNotifications                                                 *)

TopN == 3

\* notificationCountsByPost.hasOwnProperty(postId): the position of the key, 0 if absent
KeyIndex(countsByPost, postId) ==
  IF \E i \in 1..Len(countsByPost) : countsByPost[i].post.id = postId
  THEN CHOOSE i \in 1..Len(countsByPost) : countsByPost[i].post.id = postId
  ELSE 0

NewPostAggregate(notification) ==
  [latest |-> Null,
   post   |-> notification.post,
   counts |-> [comment |-> 0, like |-> 0, share |-> 0, total |-> 0]]

WithPost(countsByPost, notification) ==
  IF KeyIndex(countsByPost, notification.post.id) = 0
  THEN Append(countsByPost, NewPostAggregate(notification))
  ELSE countsByPost

\* a tally that forgets the running total of share notifications
CountActionShareUntotalled(aggregate, notification) ==
  IF notification.action = NotificationAction.SHARE
  THEN [aggregate EXCEPT !.counts[notification.action] = @ + 1]
  ELSE [aggregate EXCEPT !.counts[notification.action] = @ + 1,
                         !.counts.total = @ + 1]

CountAction(aggregate, notification) ==
  [aggregate EXCEPT !.counts[notification.action] = @ + 1,
                    !.counts.total = @ + 1]

\* a tracker that keeps the comment seen last, whatever its creation time
UpdateLatestLastSeen(aggregate, notification) ==
  IF notification.action # NotificationAction.COMMENT THEN aggregate
  ELSE [aggregate EXCEPT !.latest = notification]

UpdateLatest(aggregate, notification) ==
  IF notification.action # NotificationAction.COMMENT THEN aggregate
  ELSE IF aggregate.latest = Null THEN [aggregate EXCEPT !.latest = notification]
  ELSE IF aggregate.latest.createdAt < notification.createdAt
       THEN [aggregate EXCEPT !.latest = notification]
       ELSE aggregate

\* one iteration of the for loop
Accumulate(countsByPost, notification) ==
  LET withKey == WithPost(countsByPost, notification)
      i == KeyIndex(withKey, notification.post.id)
  IN [withKey EXCEPT ![i] = UpdateLatest(CountAction(withKey[i], notification), notification)]

RECURSIVE CountsByPost(_)
CountsByPost(notifs) ==
  IF notifs = <<>> THEN <<>>
  ELSE Accumulate(CountsByPost(SubSeq(notifs, 1, Len(notifs) - 1)), notifs[Len(notifs)])

\* Array.prototype.sort is stable: an element goes after the ones that compare <= 0 to it
InsertByTotal(sorted, a) ==
  LET before == Cardinality({i \in 1..Len(sorted) : sorted[i].counts.total >= a.counts.total})
  IN SubSeq(sorted, 1, before) \o <<a>> \o SubSeq(sorted, before + 1, Len(sorted))

RECURSIVE SortByTotalDesc(_)
SortByTotalDesc(aggregates) ==
  IF aggregates = <<>> THEN <<>>
  ELSE InsertByTotal(SortByTotalDesc(SubSeq(aggregates, 1, Len(aggregates) - 1)),
                     aggregates[Len(aggregates)])

Slice(s, n) == SubSeq(s, 1, Min(n, Len(s)))

\* a ranking that truncates without sorting
TopPostsUnsorted(countsByPost) == Slice(countsByPost, TopN)

TopPosts(countsByPost) == Slice(SortByTotalDesc(countsByPost), TopN)

_aggregateNotifications(notifs) == TopPosts(CountsByPost(notifs))

----------------------------------------------------------------------------
(* DateHelper and EmailFrequency                                           *)

MinutesPerDay == 24 * 60

EmailFrequency ==
  [INSTANT |-> "instant", DAILY |-> "daily", WEEKLY |-> "weekly", BIWEEKLY |-> "biweekly"]

subtractMinutes(date, minutes) ==
  IF minutes = Undefined THEN InvalidDate ELSE date - minutes

subtractDays(date, days) ==
  IF days = Undefined THEN InvalidDate ELSE date - days * MinutesPerDay

----------------------------------------------------------------------------
(* findNotifications                                                       *)

InstantUnreadLookbackInterval == 5

User(id, notifyPrefs) == [_id |-> id, email |-> id \o "@mail", notifyPrefs |-> notifyPrefs]

\* the users the notification receivers are looked up in
Users == {User("u1", Null), User("u2", Null)}

Doc(id) == notifications[CHOOSE i \in 1..Len(notifications) : notifications[i]._id = id]

\* the elements of s at the positions kept, in the order of s
Filter(s, kept) ==
  [k \in 1..Cardinality(kept) |->
     s[CHOOSE i \in kept : Cardinality({j \in kept : j <= i}) = k]]

\* $lookup from users + $unwind: a document whose user is missing is dropped
Lookup(userId) == {u \in users : u._id = userId}

\* an instant matcher that does not look at the instant-tier sent stamp
InstantMatchIgnoringStamp(n, now) ==
  /\ n.readAt = NullDate
  /\ n.createdAt < subtractMinutes(now, InstantUnreadLookbackInterval)

InstantMatch(n, now) ==
  /\ n.readAt = NullDate
  /\ n.emailSentAt[EmailFrequency.INSTANT] = NullDate
  /\ n.createdAt < subtractMinutes(now, InstantUnreadLookbackInterval)

\* the aggregate of _findInstantNotifications: ids of the documents cursor.toArray() holds
InstantQuery(now) ==
  LET docs == Filter(notifications,
                     {i \in 1..Len(notifications) :
                        /\ InstantMatch(notifications[i], now)
                        /\ Lookup(notifications[i].receiver) # {}})
  IN [i \in 1..Len(docs) |-> docs[i]._id]

IntervalDays(frequency) ==
  IF frequency = EmailFrequency.DAILY THEN 1
  ELSE IF frequency = EmailFrequency.WEEKLY THEN 7
  ELSE IF frequency = EmailFrequency.BIWEEKLY THEN 14
  ELSE Undefined

\* createdAt: { $gt: since }; against an Invalid Date the outcome is the server's choice
CreatedAfter(n, since, invalidMatches) ==
  IF since = InvalidDate THEN invalidMatches ELSE n.createdAt > since

DigestMatch(n, frequency, now, invalidMatches) ==
  /\ n.emailSentAt[frequency] = NullDate
  /\ CreatedAfter(n, subtractDays(now, IntervalDays(frequency)), invalidMatches)

\* $group by receiver, in order of first appearance
RECURSIVE GroupByReceiver(_)
GroupByReceiver(docs) ==
  IF docs = <<>> THEN <<>>
  ELSE LET groups == GroupByReceiver(SubSeq(docs, 1, Len(docs) - 1))
           n == docs[Len(docs)]
       IN IF \E g \in 1..Len(groups) : groups[g]._id = n.receiver
          THEN LET g == CHOOSE g \in 1..Len(groups) : groups[g]._id = n.receiver
               IN [groups EXCEPT ![g].notifications = Append(@, n._id)]
          ELSE Append(groups, [_id |-> n.receiver, notifications |-> <<n._id>>])

\* the aggregate of _findDigestNotifications: the receiver groups the cursor holds
DigestQuery(frequency, now, invalidMatches) ==
  LET matched == Filter(notifications,
                        {i \in 1..Len(notifications) :
                           DigestMatch(notifications[i], frequency, now, invalidMatches)})
      groups == GroupByReceiver(matched)
  IN Filter(groups, {g \in 1..Len(groups) : Lookup(groups[g]._id) # {}})

GroupIds(groups) ==
  UNION {{groups[g].notifications[i] : i \in 1..Len(groups[g].notifications)} :
           g \in 1..Len(groups)}

\* the while loop of _findDigestNotifications
Digests(groups) ==
  [g \in 1..Len(groups) |->
     [posts    |-> _aggregateNotifications(
                     [i \in 1..Len(groups[g].notifications) |->
                        Doc(groups[g].notifications[i])]),
      receiver |-> CHOOSE u \in users : u._id = groups[g]._id]]

\* a stamping that writes nothing
setEmailSentAtNowhere(docs, notificationIds, frequency, now) == docs

\* a stamping that always writes the instant tier
setEmailSentAtInstantTier(docs, notificationIds, frequency, now) ==
  [i \in 1..Len(docs) |->
     IF docs[i]._id \in notificationIds
     THEN [docs[i] EXCEPT !.emailSentAt[EmailFrequency.INSTANT] = now]
     ELSE docs[i]]

\* updateMany({_id: {$in: notificationIds}}, {$set: {emailSentAt.<frequency>: new Date()}})
setEmailSentAt(docs, notificationIds, frequency, now) ==
  [i \in 1..Len(docs) |->
     IF docs[i]._id \in notificationIds
     THEN [docs[i] EXCEPT !.emailSentAt[frequency] = now]
     ELSE docs[i]]

----------------------------------------------------------------------------
(* The notifications collection over time, and the calls                   *)

MaxCreated == 1
MaxReads == 1
MaxCalls == 2

\* what a caller may pass: the four tiers and a value that is none of them
FrequencyArgs == {"instant", "daily", "weekly", "biweekly", "monthly"}

\* the instants new Date() is read at
Instants == {0, InstantUnreadLookbackInterval + 1, MinutesPerDay}

Notification(id, receiver, postId, action, now) ==
  [_id |-> id, receiver |-> receiver, post |-> [id |-> postId], action |-> action,
   createdAt |-> now, readAt |-> NullDate,
   emailSentAt |-> [f \in FrequencyArgs |-> NullDate]]

\* a new notification: for u1, for u2, or for u9, who has no user document
NewNotifications(id, now) ==
  {Notification(id, "u1", "postA", NotificationAction.COMMENT, now),
   Notification(id, "u2", "postA", NotificationAction.SHARE, now),
   Notification(id, "u9", "postA", NotificationAction.LIKE, now)}

\* the collection found at start: empty, or four notifications of u1 on four posts
FourPosts ==
  <<Notification(1, "u1", "postA", NotificationAction.COMMENT, 0),
    Notification(2, "u1", "postB", NotificationAction.LIKE, 0),
    Notification(3, "u1", "postC", NotificationAction.SHARE, 0),
    Notification(4, "u1", "postD", NotificationAction.COMMENT, 0)>>

SeedCollections == {<<>>, FourPosts}

Idle == [pc |-> "idle"]

IdleNotifications ==
  /\ notifications = <<>>
  /\ callers = {}
  /\ call = <<>>
  /\ started = 0
  /\ created = 0
  /\ reads = 0
  /\ quiet = TRUE
  /\ history = <<>>

IdleAggregator ==
  /\ aggInput = <<>>
  /\ notificationCountsByPost = <<>>
  /\ topThreePosts = <<>>

IdleDirectMessages ==
  /\ threadsCollection = {}
  /\ messagesCollection = {}
  /\ pc = "idle"
  /\ threads = {}
  /\ messagesCursor = {}
  /\ messages = <<>>

InitNotifications(who) ==
  /\ clock = 0
  /\ users = Users
  /\ notifications \in SeedCollections
  /\ callers = who
  /\ call = [c \in who |-> Idle]
  /\ started = 0
  /\ created = 0
  /\ reads = 0
  /\ quiet = TRUE
  /\ history = <<>>

Init ==
  /\ InitNotifications({1})
  /\ IdleAggregator
  /\ IdleDirectMessages

InitConcurrent ==
  /\ InitNotifications({1, 2})
  /\ IdleAggregator
  /\ IdleDirectMessages

\* time passes
Tick ==
  /\ \E t \in Instants : t > clock /\ clock' = t
  /\ UNCHANGED <<notifications, callers, call, started, created, reads, quiet, history, users, aggVars, dmVars>>

\* the application creates a notification
CreateNotification ==
  /\ created < MaxCreated
  /\ created' = created + 1
  /\ \E n \in NewNotifications(Len(notifications) + 1, clock) :
       notifications' = Append(notifications, n)
  /\ quiet' = FALSE
  /\ UNCHANGED <<clock, callers, call, started, reads, history, users, aggVars, dmVars>>

\* the receiver reads a notification
ReadNotification ==
  /\ reads < MaxReads
  /\ reads' = reads + 1
  /\ \E i \in 1..Len(notifications) :
       /\ notifications[i].readAt = NullDate
       /\ notifications' = [notifications EXCEPT ![i].readAt = clock]
  /\ quiet' = FALSE
  /\ UNCHANGED <<clock, callers, call, started, created, history, users, aggVars, dmVars>>

InFlight == {c \in callers : call[c].pc # "idle"}

\* findNotifications(frequency) up to the answer of its aggregate query
Query(c, frequency) ==
  /\ call[c].pc = "idle"
  /\ started < MaxCalls
  /\ started' = started + 1
  /\ \E invalidMatches \in BOOLEAN :
       call' = [call EXCEPT ![c] =
         [pc        |-> "queried",
          frequency |-> frequency,
          interval  |-> IF frequency = EmailFrequency.INSTANT
                        THEN InstantUnreadLookbackInterval
                        ELSE IntervalDays(frequency),
          found     |-> IF frequency = EmailFrequency.INSTANT
                        THEN InstantQuery(clock)
                        ELSE DigestQuery(frequency, clock, invalidMatches),
          no        |-> started + 1,
          at        |-> clock,
          quiet     |-> quiet,
          during    |-> {call[d].no : d \in InFlight}]]
  /\ quiet' = TRUE
  /\ UNCHANGED <<clock, notifications, callers, created, reads, history, users, aggVars, dmVars>>

FindNotifications == \E c \in callers, frequency \in FrequencyArgs : Query(c, frequency)

\* the rest of the call: the in-memory loop, setEmailSentAt, and the return
StampAndReturn(c) ==
  /\ call[c].pc = "queried"
  /\ LET q == call[c]
         instant == q.frequency = EmailFrequency.INSTANT
         ids == IF instant THEN {q.found[i] : i \in 1..Len(q.found)} ELSE GroupIds(q.found)
     IN /\ notifications' = setEmailSentAt(notifications, ids, q.frequency, clock)
        /\ history' = Append(history,
             [frequency |-> q.frequency, interval |-> q.interval, no |-> q.no,
              at |-> q.at, quiet |-> q.quiet, during |-> q.during, ids |-> ids,
              returned  |-> IF instant THEN q.found ELSE Digests(q.found)])
  /\ call' = [call EXCEPT ![c] = Idle]
  /\ UNCHANGED <<clock, callers, started, created, reads, quiet, users, aggVars, dmVars>>

Return == \E c \in callers : StampAndReturn(c)

Next ==
  \/ Tick
  \/ CreateNotification
  \/ ReadNotification
  \/ FindNotifications
  \/ Return

Spec == Init /\ [][Next]_vars

\* Two callers.  Reading a notification only takes it out of the instant
\* selection, so no notification is read here.
NextConcurrent ==
  \/ Tick
  \/ CreateNotification
  \/ FindNotifications
  \/ Return

SpecConcurrent == InitConcurrent /\ [][NextConcurrent]_vars

----------------------------------------------------------------------------
(* Claims about findNotifications                                          *)

Tiers == {EmailFrequency.INSTANT, EmailFrequency.DAILY, EmailFrequency.WEEKLY,
          EmailFrequency.BIWEEKLY}

DigestTiers == Tiers \ {EmailFrequency.INSTANT}

\* two calls that returned one after the other, both of the instant tier, with no
\* notification created or read from the start of the first to the start of the second
InstantTwice(i) ==
  /\ i + 1 <= Len(history)
  /\ history[i].frequency = EmailFrequency.INSTANT
  /\ history[i + 1].frequency = EmailFrequency.INSTANT
  /\ history[i + 1].quiet

\* C1 as stated: a second instant call in succession, on unchanged notification
\* data, returns an empty list.
C1_SecondInstantCallEmpty ==
  \A i \in 1..Len(history) : InstantTwice(i) => history[i + 1].ids = {}

\* C1 as amended: a second instant call in succession, on unchanged notification
\* data, returns none of the notifications the first call returned, and returns
\* only notifications that were not yet older than the lookback interval when the
\* first call ran its query.
C1_SecondInstantCallOnlyNewlyAged ==
  \A i \in 1..Len(history) :
    InstantTwice(i) =>
      /\ history[i + 1].ids \cap history[i].ids = {}
      /\ \A id \in history[i + 1].ids :
           ~(Doc(id).createdAt < history[i].at - history[i].interval)

\* the first call returned notifications, the second one others that came of age
C1_Witness ==
  /\ Len(history) = 2
  /\ InstantTwice(1)
  /\ history[1].ids # {}
  /\ history[2].ids # {}

\* C2: when a digest call of tier f has returned, every notification of a
\* returned receiver group carries the tier-f sent stamp, and no two calls of
\* tier f, none overlapping another, include the same notification in a digest.
C2_DigestAtMostOncePerTier ==
  /\ \A i \in 1..Len(history) :
       history[i].frequency \in DigestTiers =>
         \A id \in history[i].ids :
           Doc(id).emailSentAt[history[i].frequency] # NullDate
  /\ \A i, j \in 1..Len(history) :
       (i < j /\ history[i].frequency \in DigestTiers
              /\ history[i].frequency = history[j].frequency) =>
         history[i].ids \cap history[j].ids = {}

\* a digest of four posts cut to three, then a second digest of the same tier
C2_Witness ==
  /\ Len(history) = 2
  /\ history[1].frequency = EmailFrequency.WEEKLY
  /\ history[2].frequency = EmailFrequency.WEEKLY
  /\ history[1].ids = {1, 2, 3, 4}
  /\ Len(history[1].returned) = 1
  /\ Len(history[1].returned[1].posts) = 3
  /\ history[2].ids = {5}

Overlapped(a, b) == a.no \in b.during \/ b.no \in a.during

SameNotificationTwice(i, j) ==
  /\ i < j
  /\ history[i].frequency = history[j].frequency
  /\ history[i].ids \cap history[j].ids # {}

\* C3: two calls of the same tier return the same notification only if they
\* overlapped (one ran its query before the other had stamped), and such a
\* double-processed notification is reachable (the witness).
C3_DoubleProcessingOnlyWhenOverlapped ==
  \A i, j \in 1..Len(history) :
    SameNotificationTwice(i, j) => Overlapped(history[i], history[j])

C3_Witness ==
  \E i, j \in 1..Len(history) :
    /\ SameNotificationTwice(i, j)
    /\ history[i].frequency \in DigestTiers
    /\ Overlapped(history[i], history[j])

\* C8: a frequency that is none of the four tiers is rejected: no query is
\* issued for it, nothing is stamped for it, and no result list is returned.
C8_UnrecognizedFrequencyRejected ==
  /\ \A c \in callers : call[c].pc = "queried" => call[c].frequency \in Tiers
  /\ \A i \in 1..Len(history) : history[i].frequency \in Tiers
  /\ \A i \in 1..Len(notifications) :
       \A f \in FrequencyArgs \ Tiers : notifications[i].emailSentAt[f] = NullDate

----------------------------------------------------------------------------
(* The aggregator on bounded notification lists.  A list grows by one      *)
(* notification at a time, so every list up to MaxLen is aggregated and    *)
(* every state of the loop is a state of the model.                        *)

MaxLen == 4
MaxRankLen == 5
MaxCreatedAt == 2

PostIds == {"postA", "postB", "postC", "postD"}

\* notifications of one receiver: any action and creation time, on two posts
TallyDocs(id) ==
  {[_id |-> id, post |-> [id |-> p], action |-> a, createdAt |-> t] :
     p \in {"postA", "postB"}, a \in Actions, t \in 1..MaxCreatedAt}

\* notifications of one receiver: on any of TopN + 1 posts
RankDocs(id) ==
  {[_id |-> id, post |-> [id |-> p], action |-> a, createdAt |-> 1] :
     p \in PostIds, a \in {NotificationAction.COMMENT, NotificationAction.LIKE}}

InitAgg ==
  /\ clock = 0
  /\ users = {}
  /\ IdleNotifications
  /\ IdleDirectMessages
  /\ IdleAggregator

Aggregate(notification) ==
  /\ UNCHANGED <<notifVars, dmVars>>
  /\ aggInput' = Append(aggInput, notification)
  /\ notificationCountsByPost' = CountsByPost(aggInput')
  /\ topThreePosts' = _aggregateNotifications(aggInput')

AggregateTally ==
  /\ Len(aggInput) < MaxLen
  /\ \E n \in TallyDocs(Len(aggInput) + 1) : Aggregate(n)

AggregateRank ==
  /\ Len(aggInput) < MaxRankLen
  /\ \E n \in RankDocs(Len(aggInput) + 1) : Aggregate(n)

NextAgg == AggregateTally

NextRank == AggregateRank

SpecAgg == InitAgg /\ [][NextAgg]_vars

SpecRank == InitAgg /\ [][NextRank]_vars

----------------------------------------------------------------------------
(* Claims about _aggregateNotifications                                    *)

AggregatesOf(s) == {s[i] : i \in 1..Len(s)}

InputPostIds == {aggInput[i].post.id : i \in 1..Len(aggInput)}

InputOn(postId) == {i \in 1..Len(aggInput) : aggInput[i].post.id = postId}

CommentsOn(postId) ==
  {i \in InputOn(postId) : aggInput[i].action = NotificationAction.COMMENT}

\* C4: the aggregator returns exactly min(3, number of distinct post ids)
\* post-aggregates, each one of the aggregates built by the loop and no post
\* twice, ordered by counts.total descending, and every aggregate left out has
\* a total no greater than the total of each one returned.
C4_TopThreeRanked ==
  /\ Len(topThreePosts) = Min(3, Cardinality(InputPostIds))
  /\ Len(topThreePosts) <= 3
  /\ AggregatesOf(topThreePosts) \subseteq AggregatesOf(notificationCountsByPost)
  /\ \A i, j \in 1..Len(topThreePosts) :
       /\ i < j => topThreePosts[i].counts.total >= topThreePosts[j].counts.total
       /\ i # j => topThreePosts[i].post.id # topThreePosts[j].post.id
  /\ \A out \in AggregatesOf(notificationCountsByPost) \ AggregatesOf(topThreePosts) :
       \A kept \in AggregatesOf(topThreePosts) : out.counts.total <= kept.counts.total

\* four posts, the post seen last has the greatest total, and one post is cut off
C4_Witness ==
  /\ Len(notificationCountsByPost) = 4
  /\ Len(topThreePosts) = 3
  /\ notificationCountsByPost[4].counts.total = 2
  /\ topThreePosts[1] = notificationCountsByPost[4]
  /\ topThreePosts[3].counts.total = 1

\* C5: for every post-aggregate, after each notification accumulated and in the
\* returned array, counts.total = counts.comment + counts.like + counts.share and
\* counts.total is the number of input notifications on that post.
C5_TotalIsSumOfCounts ==
  \A g \in AggregatesOf(notificationCountsByPost) \cup AggregatesOf(topThreePosts) :
    /\ g.counts.total = g.counts.comment + g.counts.like + g.counts.share
    /\ g.counts.total = Cardinality(InputOn(g.post.id))

C5_Witness ==
  \E g \in AggregatesOf(topThreePosts) :
    /\ g.counts.comment = 1 /\ g.counts.like = 1 /\ g.counts.share = 2
    /\ g.counts.total = 4

\* C6: for every post-aggregate, latest is null exactly when the input holds no
\* comment on the post; otherwise latest is a comment of the input on that post
\* whose creation time no other comment on the post exceeds (the one listed first
\* among those created last), so that like and share notifications, which are no
\* comments, never decide it.
C6_LatestIsNewestComment ==
  \A g \in AggregatesOf(notificationCountsByPost) \cup AggregatesOf(topThreePosts) :
    LET comments == CommentsOn(g.post.id) IN
    /\ (g.latest = Null) <=> (comments = {})
    /\ comments # {} =>
         \E i \in comments :
           /\ g.latest = aggInput[i]
           /\ \A j \in comments : aggInput[j].createdAt <= aggInput[i].createdAt
           /\ \A j \in comments : j < i => aggInput[j].createdAt < aggInput[i].createdAt

\* the newest comment came first, an older comment and a like followed it
C6_Witness ==
  /\ Len(aggInput) = 3
  /\ \A i \in 1..3 : aggInput[i].post.id = "postA"
  /\ aggInput[1].action = NotificationAction.COMMENT /\ aggInput[1].createdAt = 2
  /\ aggInput[2].action = NotificationAction.COMMENT /\ aggInput[2].createdAt = 1
  /\ aggInput[3].action = NotificationAction.LIKE /\ aggInput[3].createdAt = 2
  /\ topThreePosts[1].latest = aggInput[1]

----------------------------------------------------------------------------
(* findUnreadDirectMessages                                                *)

MessageThreadStatus == [ACCEPTED |-> "accepted", PENDING |-> "pending"]

NotifyPrefs(message) == [instant |-> [message |-> message]]

\* $match of the threads aggregate: each condition is met by some element of participants
ThreadMatch(thread, now) ==
  LET ps == {thread.participants[i] : i \in 1..Len(thread.participants)}
  IN /\ \E p \in ps : p.newMessages > 0
     /\ \E p \in ps : p.lastAccess < subtractMinutes(now, InstantUnreadLookbackInterval)
     /\ \E p \in ps : p.status \in {MessageThreadStatus.ACCEPTED, MessageThreadStatus.PENDING}

\* $lookup: the user documents of the participants
JoinUsers(thread) ==
  [_id |-> thread._id, participants |-> thread.participants,
   users |-> {u \in users : \E i \in 1..Len(thread.participants) :
                               thread.participants[i].id = u._id}]

\* the threads aggregate
ThreadsQuery(now) == {JoinUsers(t) : t \in {t \in threadsCollection : ThreadMatch(t, now)}}

\* $match, $sort by createdAt and $group with $last: the latest message of each thread
MessagesQuery(threadIds) ==
  {[_id |-> id,
    latestMessage |-> CHOOSE m \in messagesCollection :
                        /\ m.threadId = id
                        /\ \A o \in messagesCollection :
                             o.threadId = id => o.createdAt <= m.createdAt] :
     id \in {id \in threadIds : \E m \in messagesCollection : m.threadId = id}}

\* Array.prototype.find: the first of the elements at the positions hit, Null for undefined
Find(array, hits) ==
  IF hits = {} THEN Null ELSE array[CHOOSE i \in hits : \A j \in hits : i <= j]

\* a receiver search that accepts any unread count
FindReceiverAnyCount(thread) ==
  Find(thread.participants,
       {i \in 1..Len(thread.participants) : thread.participants[i].newMessages >= 0})

FindSender(thread) ==
  Find(thread.participants,
       {i \in 1..Len(thread.participants) : thread.participants[i].newMessages = 0})

FindReceiver(thread) ==
  Find(thread.participants,
       {i \in 1..Len(thread.participants) : thread.participants[i].newMessages > 0})

\* thread.users.find(user => user._id.toString() === receiver.id.toString())
FindReceiverUser(thread, receiver) ==
  IF \E u \in thread.users : u._id = receiver.id
  THEN CHOOSE u \in thread.users : u._id = receiver.id
  ELSE Null

\* one pass of the while loop on a cursor element: "continue", "throw" or the triple pushed
LoopBody(message, thread) ==
  LET sender == FindSender(thread)
      receiver == FindReceiver(thread)
      receiverUser == FindReceiverUser(thread, receiver)
  IN IF sender = Null \/ receiver = Null THEN "continue"
     ELSE IF receiverUser = Null THEN "throw"
     ELSE IF receiverUser.notifyPrefs # Null /\ ~receiverUser.notifyPrefs.instant.message
          THEN "continue"
     ELSE "push"

Triple(message, thread) ==
  LET receiver == FindReceiver(thread)
  IN [sender   |-> FindSender(thread),
      receiver |-> [id |-> receiver.id, newMessages |-> receiver.newMessages,
                    lastAccess |-> receiver.lastAccess, status |-> receiver.status,
                    email |-> FindReceiverUser(thread, receiver).email],
      message  |-> message.latestMessage]

----------------------------------------------------------------------------
(* The databases findUnreadDirectMessages is called on                     *)

MaxUnread == 2

Now == MinutesPerDay

Participants(id, counts, accesses, statuses) ==
  {[id |-> id, newMessages |-> n, lastAccess |-> a, status |-> s] :
     n \in counts, a \in accesses, s \in statuses}

\* last access just before the lookback interval began, or at its very beginning
LastAccesses == {Now - InstantUnreadLookbackInterval - 1, Now - InstantUnreadLookbackInterval}

Statuses == {MessageThreadStatus.ACCEPTED, MessageThreadStatus.PENDING, "blocked"}

Thread(id, p1, p2) == [_id |-> id, participants |-> <<p1, p2>>]

Message(threadId, createdAt) ==
  [_id |-> threadId \o "m" \o ToString(createdAt), threadId |-> threadId,
   createdAt |-> createdAt]

\* no user document, or one with no preferences, with messages on, with messages off
UserDocs(id, prefs) == {{}} \cup {{User(id, p)} : p \in prefs}

AllPrefs == {Null, NotifyPrefs(TRUE), NotifyPrefs(FALSE)}

\* one thread, every combination of its participants, users and messages
OneThread ==
  {[threads  |-> {Thread("t1", p1, p2)},
    users    |-> u1 \cup u2,
    messages |-> {Message("t1", c) : c \in 1..k}] :
     p1 \in Participants("u1", 0..MaxUnread, LastAccesses, Statuses),
     p2 \in Participants("u2", 0..MaxUnread, LastAccesses, Statuses),
     u1 \in UserDocs("u1", AllPrefs), u2 \in UserDocs("u2", AllPrefs), k \in 0..2}

\* two threads of stale, accepted participants with one message each
TwoThreads ==
  {[threads  |-> {Thread("t1", p1, p2), Thread("t2", p3, p4)},
    users    |-> u1 \cup u2 \cup u3 \cup u4,
    messages |-> {Message("t1", 1), Message("t2", 1)}] :
     p1 \in Participants("u1", {0, MaxUnread}, {Now - InstantUnreadLookbackInterval - 1},
                         {MessageThreadStatus.ACCEPTED}),
     p2 \in Participants("u2", {0, MaxUnread}, {Now - InstantUnreadLookbackInterval - 1},
                         {MessageThreadStatus.ACCEPTED}),
     p3 \in Participants("u3", {0, MaxUnread}, {Now - InstantUnreadLookbackInterval - 1},
                         {MessageThreadStatus.ACCEPTED}),
     p4 \in Participants("u4", {0, MaxUnread}, {Now - InstantUnreadLookbackInterval - 1},
                         {MessageThreadStatus.ACCEPTED}),
     u1 \in UserDocs("u1", {Null}), u2 \in UserDocs("u2", {Null}),
     u3 \in UserDocs("u3", {Null}), u4 \in UserDocs("u4", {Null})}

InitDM ==
  /\ clock = Now
  /\ \E db \in OneThread \cup TwoThreads :
       /\ threadsCollection = db.threads
       /\ users = db.users
       /\ messagesCollection = db.messages
  /\ pc = "idle"
  /\ threads = {}
  /\ messagesCursor = {}
  /\ messages = <<>>
  /\ IdleNotifications
  /\ IdleAggregator

ThreadOf(id) == CHOOSE t \in threads : t._id = id

\* the threads aggregate and the messages aggregate
FetchThreads ==
  /\ pc = "idle"
  /\ threads' = ThreadsQuery(clock)
  /\ messagesCursor' = MessagesQuery({t._id : t \in threads'})
  /\ pc' = "loop"
  /\ UNCHANGED <<threadsCollection, messagesCollection, messages, notifVars, aggVars>>

\* messagesCursor.next() and the body of the while loop
NextMessage ==
  /\ pc = "loop"
  /\ \E message \in messagesCursor :
       LET outcome == LoopBody(message, ThreadOf(message._id))
       IN /\ messagesCursor' = messagesCursor \ {message}
          /\ messages' = IF outcome = "push"
                         THEN Append(messages, Triple(message, ThreadOf(message._id)))
                         ELSE messages
          /\ pc' = IF outcome = "throw" THEN "threw" ELSE "loop"
  /\ UNCHANGED <<threadsCollection, messagesCollection, threads, notifVars, aggVars>>

\* messagesCursor.hasNext() is false: return messages
ReturnMessages ==
  /\ pc = "loop"
  /\ messagesCursor = {}
  /\ pc' = "returned"
  /\ UNCHANGED <<threadsCollection, messagesCollection, threads, messagesCursor, messages,
                 notifVars, aggVars>>

NextDM == FetchThreads \/ NextMessage \/ ReturnMessages

SpecDM == InitDM /\ [][NextDM]_vars

----------------------------------------------------------------------------
(* Claims about findUnreadDirectMessages                                   *)

ParticipantsOf(thread) == {thread.participants[i] : i \in 1..Len(thread.participants)}

StoredThread(id) == CHOOSE t \in threadsCollection : t._id = id

TriplesOf(threadId) == {k \in 1..Len(messages) : messages[k].message.threadId = threadId}

\* C7: a triple is produced only for a thread with a participant whose unread
\* count is 0 and one whose unread count is greater than 0; its sender is the
\* participant with count 0 and its receiver the one with a count greater than
\* 0; a thread with no participant at 0, or none above 0, yields no triple.
C7_UnreadPairResolution ==
  /\ \A k \in 1..Len(messages) :
       LET ps == ParticipantsOf(StoredThread(messages[k].message.threadId)) IN
       /\ messages[k].sender \in ps
       /\ messages[k].sender.newMessages = 0
       /\ \E p \in ps : /\ p.id = messages[k].receiver.id
                        /\ p.newMessages = messages[k].receiver.newMessages
       /\ messages[k].receiver.newMessages > 0
  /\ \A t \in threadsCollection :
       ((\A p \in ParticipantsOf(t) : p.newMessages # 0)
          \/ (\A p \in ParticipantsOf(t) : ~(p.newMessages > 0)))
       => TriplesOf(t._id) = {}

\* thread t1 is paired, thread t2, with unread messages on both sides, is passed over
C7_Witness ==
  /\ pc = "returned"
  /\ Len(messages) = 1
  /\ messages[1].message.threadId = "t1"
  /\ messages[1].sender.id = "u1" /\ messages[1].sender.newMessages = 0
  /\ messages[1].receiver.id = "u2" /\ messages[1].receiver.newMessages = MaxUnread
  /\ \E t \in threads :
       /\ t._id = "t2"
       /\ \A p \in ParticipantsOf(t) : p.newMessages > 0
       /\ Cardinality(t.users) = 2

Qualifies(thread) ==
  /\ \E m \in messagesCollection : m.threadId = thread._id
  /\ FindSender(thread) # Null
  /\ FindReceiver(thread) # Null
  /\ \E u \in thread.users :
       /\ u._id = FindReceiver(thread).id
       /\ (u.notifyPrefs = Null \/ u.notifyPrefs.instant.message)

\* C9: a thread whose joined users lack the receiver's record is skipped: the
\* call never fails on it, and when it returns it has a triple for every
\* qualifying thread.
C9_MissingReceiverUserSkipsThread ==
  /\ pc # "threw"
  /\ pc = "returned" => \A t \in threads : Qualifies(t) => TriplesOf(t._id) # {}

\* C10: the receiver of every triple has a last access earlier than now minus
\* the lookback interval and a status of accepted or pending.
C10_ReceiverStaleAndActive ==
  \A k \in 1..Len(messages) :
    /\ messages[k].receiver.lastAccess < clock - InstantUnreadLookbackInterval
    /\ messages[k].receiver.status \in
         {MessageThreadStatus.ACCEPTED, MessageThreadStatus.PENDING}

====
